---- MODULE Spec2Model ----
(***************************************************************************)
(* Farm record reconciliation (app/crud.py, app/utils.py): upsert_farm and *)
(* its helpers, over a table of Farm rows.                                 *)
(*                                                                         *)
(* Representation.                                                         *)
(*  - Optional values: None is the empty tuple, a present value v is <<v>>.*)
(*  - JSON values inside a geometry are tagged (num / list / other) so the *)
(*    isinstance tests of utils.py can be made.                            *)
(*  - Coordinates are fixed-point integers (ticks).  round4 keeps a value  *)
(*    to a multiple of Round4Step ticks, rounding half to even as Python's *)
(*    round does.                                                          *)
(*  - All geometry vertices of the model lie on one meridian, where the    *)
(*    haversine formula reduces to R * |dlat|; lengths are measured in     *)
(*    ticks of arc, and the default threshold of 5.0 km is                 *)
(*    geom_diff_threshold_km ticks.                                        *)
(*  - A datetime is [wall, tz]; its instant is wall - offset(tz).          *)
(***************************************************************************)
EXTENDS Integers, Sequences, FiniteSets, TLC

VARIABLES farms, now, ret, sess, base, within, ing, call

vars == <<farms, now, ret, sess, base, within, ing, call>>

(* v bound to x in F(x), v evaluated once (a local variable assignment) *)
Let(v, F(_)) == CHOOSE y \in {F(x) : x \in {v}} : TRUE

None == <<>>
Some(v) == <<v>>
Val(o) == o[1]

(* ---------------- bounds ---------------- *)
MaxNow == 2

(* the longest innermost list of a coordinate structure *)
MaxLen == 3

(* ---------------- JSON values ---------------- *)
Num(n) == [k |-> "num", n |-> n, l |-> <<>>]
Lst(s) == [k |-> "list", n |-> 0, l |-> s]
Other == [k |-> "other", n |-> 0, l |-> <<>>]

IsList(v) == v.k = "list"
IsNum(v) == v.k = "num"

Geom(t, c) == [type |-> t, coordinates |-> c]

(* a GeoJSON GeometryCollection: it has "geometries" and no "coordinates", *)
(* so geom.get("coordinates") is None, a value that is not a list         *)
GeometryCollection(members) ==
    [type |-> "GeometryCollection", coordinates |-> Other, geometries |-> members]
Point(lon, lat) == Geom("Point", Lst(<<Num(lon), Num(lat)>>))

(* ---------------- app/utils.py ---------------- *)

round4(v) ==
    IF v = None THEN None
    ELSE LET x == Val(v)
             q == x \div 10
             r == x % 10
         IN Some(IF r < 5 THEN q * 10
                 ELSE IF r > 5 THEN (q + 1) * 10
                 ELSE IF q % 2 = 0 THEN q * 10 ELSE (q + 1) * 10)

TzOffset(tz) == CASE tz = "utc" -> 0
                  [] tz = "naive" -> 0
                  [] tz = "+01:00" -> 1

DT(w, tz) == [wall |-> w, tz |-> tz]

to_aware_utc(v, clock) ==
    IF v = None THEN DT(clock, "utc")
    ELSE LET d == Val(v) IN DT(d.wall - TzOffset(d.tz), "utc")

Instant(d) == d.wall - TzOffset(d.tz)

RECURSIVE flatten_coords(_)

(* mutant: a list of numbers of any length from 2 on counts as a pair *)
flatten_coords_any_length(coords) ==
    IF ~IsList(coords) THEN <<>>
    ELSE IF Len(coords.l) >= 2 /\ \A i \in 1..Len(coords.l) : IsNum(coords.l[i])
         THEN <<coords>>
         ELSE LET RECURSIVE ext(_)
                  ext(i) == IF i > Len(coords.l) THEN <<>>
                            ELSE flatten_coords(coords.l[i]) \o ext(i + 1)
              IN ext(1)

flatten_coords(coords) ==
    IF ~IsList(coords) THEN <<>>
    ELSE IF Len(coords.l) = 2 /\ \A i \in 1..2 : IsNum(coords.l[i])
         THEN <<coords>>
         ELSE LET RECURSIVE ext(_)
                  ext(i) == IF i > Len(coords.l) THEN <<>>
                            ELSE flatten_coords(coords.l[i]) \o ext(i + 1)
              IN ext(1)

RECURSIVE SumAt(_, _)
SumAt(pts, j) ==
    IF pts = <<>> THEN 0 ELSE Head(pts).l[j].n + SumAt(Tail(pts), j)

(* the centroid of the flattened pairs pts: (lats / n, lons / n) *)
MeanOf(pts) ==
    IF pts = <<>> THEN None
    ELSE Some(<<SumAt(pts, 2) \div Len(pts), SumAt(pts, 1) \div Len(pts)>>)

representative_point_from_geometry(geom) ==
    IF geom = None THEN None
    ELSE IF /\ Val(geom).type = "Point"
            /\ IsList(Val(geom).coordinates)
            /\ Len(Val(geom).coordinates.l) >= 2
            /\ IsNum(Val(geom).coordinates.l[1])
            /\ IsNum(Val(geom).coordinates.l[2])
    THEN Some(<<Val(geom).coordinates.l[2].n, Val(geom).coordinates.l[1].n>>)
    ELSE MeanOf(flatten_coords(Val(geom).coordinates))

Abs(x) == IF x < 0 THEN -x ELSE x

(* mutant: the difference of the latitudes, with its sign *)
haversine_km_signed(lat1, lon1, lat2, lon2) ==
    CASE lon1 = lon2 -> lat2 - lat1

haversine_km(lat1, lon1, lat2, lon2) ==
    CASE lon1 = lon2 -> Abs(lat2 - lat1)

(* ---------------- app/models.py ---------------- *)

Farm(id, name, acr, lat, lon, geom, src, ts) ==
    [farm_id |-> id, farm_name |-> name, acreage |-> acr, latitude |-> lat,
     longitude |-> lon, geometry |-> geom, source |-> src, last_updated |-> ts]

(* mutant: the lookup misses the stored row *)
db_get_miss(tbl, id) == None

(* db.get(models.Farm, farm_id): the row with that primary key, or None *)
db_get(tbl, id) ==
    IF \E i \in 1..Len(tbl) : tbl[i].farm_id = id
    THEN Some(tbl[CHOOSE i \in 1..Len(tbl) : tbl[i].farm_id = id])
    ELSE None

(* db.add(obj); db.commit() *)
db_add(tbl, obj) == Append(tbl, obj)

(* db.commit() of a row loaded by db.get and mutated in place *)
db_update(tbl, obj) ==
    [i \in 1..Len(tbl) |-> IF tbl[i].farm_id = obj.farm_id THEN obj ELSE tbl[i]]

(* ---------------- app/crud.py ---------------- *)

Truthy(o) == o /= None /\ o /= Some("")

_aware(ts, clock) == to_aware_utc(ts, clock)

_is_newer(existing_ts, incoming_ts) == Instant(incoming_ts) >= Instant(existing_ts)

_rep_point(geom) ==
    IF geom /= None THEN representative_point_from_geometry(geom) ELSE None

RoundedPoint(rp) ==
    IF rp = None THEN <<None, None>>
    ELSE <<round4(Some(Val(rp)[1])), round4(Some(Val(rp)[2]))>>

_derive_latlon_from_geom(geom) == RoundedPoint(_rep_point(geom))

_rounded_latlon(lat, lon) == <<round4(lat), round4(lon)>>

(* lines 40-42: the derived pair, or the payload's pair when both are None *)
InsertLatLon(derived, payload) ==
    IF derived[1] = None /\ derived[2] = None
    THEN <<payload.latitude, payload.longitude>>
    ELSE derived

(* mutant: last_updated is always the ingestion time *)
NewFarm_ingestion(payload, ll, ingestion_ts, clock) ==
    Farm(payload.farm_id, payload.farm_name, payload.acreage, ll[1], ll[2],
         payload.geometry, payload.source, ingestion_ts)

(* lines 45-56, given the rounded pair ll *)
NewFarm(payload, ll, ingestion_ts, clock) ==
    Farm(payload.farm_id, payload.farm_name, payload.acreage, ll[1], ll[2],
         payload.geometry, payload.source,
         IF payload.last_updated /= None
         THEN _aware(payload.last_updated, clock)
         ELSE ingestion_ts)

RoundedPair(chosen) == _rounded_latlon(chosen[1], chosen[2])

_insert_new_farm(payload, ingestion_ts, clock) ==
    NewFarm(payload,
            RoundedPair(InsertLatLon(_derive_latlon_from_geom(payload.geometry), payload)),
            ingestion_ts, clock)

(* lines 68-71, given incoming_ts = _aware(payload.last_updated) *)
UpdateScalars(obj, payload, existing_ts, incoming_ts) ==
    [obj EXCEPT
       !.farm_name = IF Truthy(payload.farm_name) /\ _is_newer(existing_ts, incoming_ts)
                     THEN payload.farm_name ELSE @,
       !.acreage = IF payload.acreage /= None /\ _is_newer(existing_ts, incoming_ts)
                   THEN payload.acreage ELSE @]

_update_scalars_if_newer(obj, payload, existing_ts, clock) ==
    UpdateScalars(obj, payload, existing_ts, _aware(payload.last_updated, clock))

Reason(d_km, threshold) == Some(<<"Geometry shift", d_km, "km >", threshold, "km">>)

(* mutant: a shift equal to the threshold is flagged *)
DecideByDistance_strict(d_km, threshold) ==
    IF d_km >= threshold
    THEN <<FALSE, TRUE, Reason(d_km, threshold)>>
    ELSE <<TRUE, FALSE, None>>

(* mutant: a shift over the threshold is dropped without a flag *)
DecideByDistance_silent(d_km, threshold) ==
    IF d_km > threshold
    THEN <<FALSE, FALSE, None>>
    ELSE <<TRUE, FALSE, None>>

(* lines 95-97, given d_km *)
DecideByDistance(d_km, threshold) ==
    IF d_km > threshold
    THEN <<FALSE, TRUE, Reason(d_km, threshold)>>
    ELSE <<TRUE, FALSE, None>>

(* mutant: a geometry that cannot be compared is not accepted *)
DecideByPoints_reject(old_pt, new_pt, threshold) ==
    IF old_pt /= None /\ new_pt /= None
    THEN DecideByDistance(haversine_km(Val(old_pt)[1], Val(old_pt)[2],
                                       Val(new_pt)[1], Val(new_pt)[2]), threshold)
    ELSE <<FALSE, FALSE, None>>

(* lines 93-100, given old_pt and new_pt *)
DecideByPoints(old_pt, new_pt, threshold) ==
    IF old_pt /= None /\ new_pt /= None
    THEN DecideByDistance(haversine_km(Val(old_pt)[1], Val(old_pt)[2],
                                       Val(new_pt)[1], Val(new_pt)[2]), threshold)
    ELSE <<TRUE, FALSE, None>>

(* mutant: a stale candidate geometry is still compared with the stored one *)
_decide_geometry_merge_no_stale(old_geom, new_geom, threshold, existing_ts, incoming_ts) ==
    IF new_geom = None THEN <<FALSE, FALSE, None>>
    ELSE DecideByPoints(IF old_geom /= None THEN _rep_point(old_geom) ELSE None,
                        _rep_point(new_geom), threshold)

(* returns <<accept_update, geometry_flagged, reason>> *)
_decide_geometry_merge(old_geom, new_geom, threshold, existing_ts, incoming_ts) ==
    IF new_geom = None THEN <<FALSE, FALSE, None>>
    ELSE IF incoming_ts /= None /\ Instant(Val(incoming_ts)) < Instant(existing_ts)
    THEN <<FALSE, FALSE, None>>
    ELSE DecideByPoints(IF old_geom /= None THEN _rep_point(old_geom) ELSE None,
                        _rep_point(new_geom), threshold)

(* lines 125-127 and 134-136, given the derived pair ll *)
SetLatLon(obj, ll) ==
    IF ll[1] /= None /\ ll[2] /= None
    THEN [obj EXCEPT !.latitude = ll[1], !.longitude = ll[2]]
    ELSE obj

(* lines 124-127 and 133-136 *)
SyncLatLon(obj) == SetLatLon(obj, _derive_latlon_from_geom(obj.geometry))

(* mutant: a flagged candidate geometry is stored all the same *)
_apply_flagged_stores_geometry(obj, payload, accept_geom_update, geometry_flagged, existing_ts, incoming_ts) ==
    IF geometry_flagged \/ accept_geom_update
    THEN SyncLatLon([obj EXCEPT !.geometry = payload.geometry])
    ELSE IF obj.geometry /= None
    THEN SyncLatLon(obj)
    ELSE IF incoming_ts = None \/ Instant(Val(incoming_ts)) >= Instant(existing_ts)
    THEN [obj EXCEPT
            !.latitude = IF payload.latitude /= None THEN round4(payload.latitude) ELSE @,
            !.longitude = IF payload.longitude /= None THEN round4(payload.longitude) ELSE @]
    ELSE obj

(* mutant: a flagged update still takes the candidate's explicit coordinates *)
_apply_flagged_takes_latlon(obj, payload, accept_geom_update, geometry_flagged, existing_ts, incoming_ts) ==
    IF accept_geom_update
    THEN SyncLatLon([obj EXCEPT !.geometry = payload.geometry])
    ELSE IF obj.geometry /= None /\ ~geometry_flagged
    THEN SyncLatLon(obj)
    ELSE IF incoming_ts = None \/ Instant(Val(incoming_ts)) >= Instant(existing_ts)
    THEN [obj EXCEPT
            !.latitude = IF payload.latitude /= None THEN round4(payload.latitude) ELSE @,
            !.longitude = IF payload.longitude /= None THEN round4(payload.longitude) ELSE @]
    ELSE obj

_apply_geometry_and_sync_latlon(obj, payload, accept_geom_update, geometry_flagged, existing_ts, incoming_ts) ==
    IF geometry_flagged THEN obj
    ELSE IF accept_geom_update
    THEN SyncLatLon([obj EXCEPT !.geometry = payload.geometry])
    ELSE IF obj.geometry /= None
    THEN SyncLatLon(obj)
    ELSE IF incoming_ts = None \/ Instant(Val(incoming_ts)) >= Instant(existing_ts)
    THEN [obj EXCEPT
            !.latitude = IF payload.latitude /= None THEN round4(payload.latitude) ELSE @,
            !.longitude = IF payload.longitude /= None THEN round4(payload.longitude) ELSE @]
    ELSE obj

(* mutant: the candidate's timestamp is stored without the recency test *)
_finalize_metadata_unguarded(obj, source, source_last_updated, clock) ==
    [obj EXCEPT
       !.last_updated = IF source_last_updated /= None
                        THEN Val(source_last_updated) ELSE @,
       !.source = IF source /= "" THEN source ELSE @]

_finalize_metadata(obj, source, source_last_updated, clock) ==
    [obj EXCEPT
       !.last_updated =
           IF /\ source_last_updated /= None
              /\ Instant(Val(source_last_updated)) >= Instant(_aware(Some(@), clock))
           THEN Val(source_last_updated) ELSE @,
       !.source = IF source /= "" THEN source ELSE @]

geom_diff_threshold_km == 50

(* the update branch of upsert_farm, lines 175-208, on the loaded row obj: *)
(* <<obj, geometry_flagged, flag_reason>>                                  *)
MergeExisting(obj, payload, threshold, clock) ==
    Let(_aware(Some(obj.last_updated), clock), LAMBDA existing_ts :
    Let(IF payload.last_updated /= None
        THEN Some(_aware(payload.last_updated, clock))
        ELSE None, LAMBDA incoming_ts :
    Let(_update_scalars_if_newer(obj, payload, existing_ts, clock), LAMBDA o1 :
    Let(_decide_geometry_merge(o1.geometry, payload.geometry, threshold,
                               existing_ts, incoming_ts), LAMBDA dec :
    Let(_apply_geometry_and_sync_latlon(o1, payload, dec[1], dec[2],
                                        existing_ts, incoming_ts), LAMBDA o2 :
    Let(_finalize_metadata(o2, payload.source, incoming_ts, clock), LAMBDA o3 :
        <<o3, dec[2], dec[3]>>))))))

Inserted(tbl, obj) ==
    [farms |-> db_add(tbl, obj), path |-> "insert", obj |-> obj,
     flagged |-> FALSE, reason |-> None]

Updated(tbl, m) ==
    [farms |-> db_update(tbl, m[1]), path |-> "update", obj |-> m[1],
     flagged |-> m[2], reason |-> m[3]]

upsert_farm(tbl, payload, ingestion_ts, threshold, clock) ==
    Let(_aware(ingestion_ts, clock), LAMBDA its :
    Let(db_get(tbl, payload.farm_id), LAMBDA got :
        IF got = None
        THEN Let(_insert_new_farm(payload, its, clock), LAMBDA obj : Inserted(tbl, obj))
        ELSE Let(MergeExisting(Val(got), payload, threshold, clock),
                 LAMBDA m : Updated(tbl, m))))

(* mutant: a row at exactly radius_km is left out *)
WithinOf_exclusive(f, lat, lon, radius_km) ==
    Let(representative_point_from_geometry(f.geometry), LAMBDA rep :
        IF rep = None THEN <<>>
        ELSE Let(haversine_km(lat, lon, Val(rep)[1], Val(rep)[2]), LAMBDA d :
                 IF d < radius_km THEN <<[farm |-> f, d |-> d]>> ELSE <<>>))

(* lines 219-225 for one row f: the (row, distance) pair appended to       *)
(* results, if any                                                         *)
WithinOf(f, lat, lon, radius_km) ==
    Let(representative_point_from_geometry(f.geometry), LAMBDA rep :
        IF rep = None THEN <<>>
        ELSE Let(haversine_km(lat, lon, Val(rep)[1], Val(rep)[2]), LAMBDA d :
                 IF d <= radius_km THEN <<[farm |-> f, d |-> d]>> ELSE <<>>))

(* the loop of lines 218-225 over the rows from index i on *)
RECURSIVE ScanFarms(_, _, _, _, _)
ScanFarms(tbl, i, lat, lon, radius_km) ==
    IF i > Len(tbl) THEN <<>>
    ELSE WithinOf(tbl[i], lat, lon, radius_km) \o ScanFarms(tbl, i + 1, lat, lon, radius_km)

RECURSIVE InsertByDistance(_, _)

(* mutant: x is put in front of the elements at the same distance *)
InsertByDistance_unstable(s, x) ==
    IF s = <<>> THEN <<x>>
    ELSE IF Head(s).d < x.d
    THEN <<Head(s)>> \o InsertByDistance(Tail(s), x)
    ELSE <<x>> \o s

(* x put into the sorted sequence s behind every element whose distance is *)
(* not larger                                                              *)
InsertByDistance(s, x) ==
    IF s = <<>> THEN <<x>>
    ELSE IF Head(s).d <= x.d
    THEN <<Head(s)>> \o InsertByDistance(Tail(s), x)
    ELSE <<x>> \o s

(* sorted(results, key=lambda x: x[1]): a stable sort by distance *)
RECURSIVE sorted(_)
sorted(results) ==
    IF results = <<>> THEN <<>>
    ELSE InsertByDistance(sorted(SubSeq(results, 1, Len(results) - 1)),
                          results[Len(results)])

farms_within_radius(tbl, lat, lon, radius_km) ==
    sorted(ScanFarms(tbl, 1, lat, lon, radius_km))

(* ---------------- app/ingest_sources.py, app/ingest_service.py ---------------- *)

(* a feature of a source document: what the document says about one farm *)
Feature(id, acr, geom, ts) ==
    [farm_id |-> id, acreage |-> acr, geometry |-> geom, last_updated |-> ts]

Record(id, acr, geom, ts, src) ==
    [farm_id |-> id, farm_name |-> None, acreage |-> acr, geometry |-> geom,
     last_updated |-> ts, source |-> src]

(* the text of a cell or property: the decimal text of n, the empty text, *)
(* a text that is not a number                                            *)
NumText(n) == [k |-> "numtext", n |-> n, l |-> <<>>]
EmptyText == [k |-> "empty", n |-> 0, l |-> <<>>]
WordText == [k |-> "word", n |-> 0, l |-> <<>>]

(* FarmIngestService._parse_acreage: float(value), None where it raises *)
_parse_acreage(value) ==
    IF value = None THEN None
    ELSE CASE Val(value).k = "empty" -> None
           [] Val(value).k \in {"num", "numtext"} -> Some(Val(value).n)
           [] OTHER -> None

(* CsvSource.records for one row *)
CsvRecord(feat) ==
    Some(Record(Val(feat.farm_id), feat.acreage, feat.geometry, feat.last_updated, "csv"))

(* GeoJSONSource.records for one feature: None stands for the ValueError *)
GeoJSONRecord(feat) ==
    IF feat.farm_id = None THEN None
    ELSE Some(Record(Val(feat.farm_id), feat.acreage, feat.geometry, feat.last_updated,
                     "geojson"))

(* XmlSource parse_geometry: the coordinates of a Point are rounded *)
parse_geometry(geom) ==
    IF geom = None THEN None
    ELSE IF /\ Val(geom).type = "Point"
            /\ IsList(Val(geom).coordinates)
            /\ Len(Val(geom).coordinates.l) = 2
            /\ \A i \in 1..2 : IsNum(Val(geom).coordinates.l[i])
    THEN Some(Point(Val(round4(Some(Val(geom).coordinates.l[1].n))),
                    Val(round4(Some(Val(geom).coordinates.l[2].n)))))
    ELSE geom

(* XmlSource.records for one feature: None stands for the ValueError *)
XmlRecord(feat) ==
    IF feat.farm_id = None THEN None
    ELSE Some(Record(Val(feat.farm_id), feat.acreage, parse_geometry(feat.geometry),
                     feat.last_updated, "xml"))

SourceRecord(kind, feat) ==
    CASE kind = "csv" -> CsvRecord(feat)
      [] kind = "geojson" -> GeoJSONRecord(feat)
      [] kind = "xml" -> XmlRecord(feat)

(* schemas.FarmBase(...): the fields pass validation *)
FarmBaseValidates(fields) ==
    /\ fields.source \in {"csv", "geojson"}
    /\ fields.last_updated /= None

(* ingest lines 38-53: the fields handed to schemas.FarmBase for record r *)
IngestFields(r, clock) ==
    Let(IF r.geometry /= None
        THEN RoundedPoint(representative_point_from_geometry(r.geometry))
        ELSE <<None, None>>, LAMBDA ll :
        [farm_id |-> r.farm_id, farm_name |-> r.farm_name,
         acreage |-> _parse_acreage(r.acreage),
         latitude |-> ll[1], longitude |-> ll[2], geometry |-> r.geometry,
         source |-> r.source,
         last_updated |-> Some(to_aware_utc(r.last_updated, clock))])

(* mutant: every record is reported in geometry_flags *)
AppendFlag_always(flags, payload, gflag, reason) ==
    Append(flags, [farm_id |-> payload.farm_id, reason |-> reason])

(* ingest lines 56-57 *)
AppendFlag(flags, payload, gflag, reason) ==
    IF gflag
    THEN Append(flags, [farm_id |-> payload.farm_id, reason |-> reason])
    ELSE flags

(* ---------------- concurrent sessions (app/db.py get_db) ---------------- *)

(* mutant: the UPDATE has no WHERE clause on the primary key *)
db_flush_update_all_rows(tbl, loaded, obj) ==
    [i \in 1..Len(tbl) |->
        [f \in DOMAIN obj |-> IF obj[f] /= loaded[f] THEN obj[f] ELSE tbl[i][f]]]

(* the UPDATE that db.commit() flushes for a row loaded as `loaded` and     *)
(* mutated to `obj`: it sets the columns whose value changed, on the row    *)
(* with that primary key as it is in the table at commit time               *)
db_flush_update(tbl, loaded, obj) ==
    [i \in 1..Len(tbl) |->
        IF tbl[i].farm_id = obj.farm_id
        THEN [f \in DOMAIN obj |-> IF obj[f] /= loaded[f] THEN obj[f] ELSE tbl[i][f]]
        ELSE tbl[i]]

(* the primary key of models.Farm: an INSERT of an existing farm_id fails *)
PrimaryKeyFree(tbl, id) == \A i \in 1..Len(tbl) : tbl[i].farm_id /= id

(* ---------------- inputs ---------------- *)

Names == {None, Some(""), Some("Alpha")}
Acreages == {None, Some(0)}
Latitudes == {None, Some(14)}
Longitudes == {None, Some(27)}
BadGeometry == Geom("Polygon", Lst(<<>>))
Geometries == {None, Some(Point(33, 0)), Some(Point(33, 50)), Some(Point(33, 55)),
               Some(BadGeometry)}
Timestamps == {None, Some(DT(1, "naive")), Some(DT(3, "+01:00"))}
IngestionTimes == {Some(DT(1, "utc"))}

(* app/schemas.py FarmBase, over the value sets above *)
FarmBase ==
    [farm_id : {"F1"}, farm_name : Names, acreage : Acreages, latitude : Latitudes,
     longitude : Longitudes, geometry : Geometries, source : {"csv"},
     last_updated : Timestamps]

(* candidates of several farms, for the claims about identity *)
FarmBaseIds ==
    [farm_id : {"F1", "F2"}, farm_name : {Some("Alpha")}, acreage : {None},
     latitude : {None}, longitude : {None},
     geometry : {None, Some(Point(33, 0)), Some(Point(33, 55))},
     source : {"csv", "geojson"}, last_updated : Timestamps]

(* candidates of the concurrent callers *)
FarmBaseConc ==
    [farm_id : {"F1"}, farm_name : {Some("Alpha"), Some("Beta")}, acreage : {None},
     latitude : {None}, longitude : {None},
     geometry : {None, Some(Point(33, 0))}, source : {"csv"},
     last_updated : {Some(DT(1, "naive")), Some(DT(3, "+01:00")), Some(DT(3, "utc"))}]

(* ---------------- state machine ---------------- *)

Sessions == {1, 2}

NoRet == [path |-> "none", farm_id |-> "", flagged |-> FALSE, reason |-> None]

Idle == [pc |-> "idle", payload |-> None, its |-> None, obj |-> None]

(* no farms_within_radius call has been made *)
NoQuery == [lat |-> 0, lon |-> 0, radius_km |-> 0, results |-> <<>>, pc |-> "none"]

(* no FarmIngestService.ingest call is under way *)
NoIngest == [pc |-> "idle", kind |-> "none", source |-> <<>>, pos |-> 1, count |-> 0,
             flags |-> <<>>, ingestion_ts |-> None, last |-> "none"]

(* no call of a function of utils.py or request to a route is recorded *)
NoCall == [fn |-> "none", args |-> <<>>, out |-> <<>>]

Init ==
    /\ farms = <<>>
    /\ now = 1
    /\ ret = NoRet
    /\ sess = [s \in Sessions |-> Idle]
    /\ base = <<>>
    /\ within = NoQuery
    /\ ing = NoIngest
    /\ call = NoCall

Returned(r, payload) ==
    [path |-> r.path, farm_id |-> payload.farm_id, flagged |-> r.flagged,
     reason |-> r.reason]

(* one call of crud.upsert_farm(db, payload, ingestion_ts=ingestion_ts), alone *)
UpsertFarm(payload, ingestion_ts) ==
    \E r \in {upsert_farm(farms, payload, ingestion_ts, geom_diff_threshold_km, now)} :
       /\ farms' = r.farms
       /\ ret' = Returned(r, payload)
       /\ UNCHANGED <<now, sess, base, within, ing, call>>

(* the wall clock read by datetime.now(timezone.utc) advances *)
Tick ==
    /\ now < MaxNow
    /\ now' = now + 1
    /\ UNCHANGED <<farms, ret, sess, base, within, ing, call>>

Upsert == \E payload \in FarmBase, its \in IngestionTimes : UpsertFarm(payload, its)

Next == Upsert \/ Tick

Spec == Init /\ [][Next]_vars

UpsertIds ==
    \E payload \in FarmBaseIds, its \in {None, Some(DT(1, "utc"))} : UpsertFarm(payload, its)

NextIds == UpsertIds \/ Tick

SpecIds == Init /\ [][NextIds]_vars

(* ---------------- radius query (app/main.py GET /farms/within) ---------------- *)

(* candidates of three farms whose vertices and explicit coordinates lie on *)
(* the meridian of QueryLon                                                 *)
QueryLon == 30

FarmBaseQuery ==
    {[farm_id |-> id, farm_name |-> None, acreage |-> None,
      latitude |-> ll[1], longitude |-> ll[2], geometry |-> g,
      source |-> "csv", last_updated |-> Some(DT(1, "utc"))] :
        id \in {"A", "B", "C"},
        ll \in {<<None, None>>, <<Some(50), Some(QueryLon)>>},
        g \in {None, Some(Point(QueryLon, 0)), Some(Point(QueryLon, 50)),
               Some(BadGeometry)}}

Centers == {<<0, QueryLon>>, <<50, QueryLon>>}
Radii == {0, 50}

(* requests are served one after the other: an upsert starts when the     *)
(* last query has been answered                                           *)
UpsertQuery ==
    /\ within.pc = "none"
    /\ \E payload \in FarmBaseQuery : UpsertFarm(payload, Some(DT(1, "utc")))

(* one call of crud.farms_within_radius(db, lat, lon, radius_km) *)
FarmsWithin(lat, lon, radius_km) ==
    /\ within' = [lat |-> lat, lon |-> lon, radius_km |-> radius_km,
                  results |-> farms_within_radius(farms, lat, lon, radius_km),
                  pc |-> "returned"]
    /\ UNCHANGED <<farms, now, ret, sess, base, ing, call>>

Query ==
    /\ within.pc = "none"
    /\ \E c \in Centers, r \in Radii : FarmsWithin(c[1], c[2], r)

(* main.py farms_within: the (farm, distance_km) list goes out as the response *)
Respond ==
    /\ within.pc = "returned"
    /\ within' = NoQuery
    /\ UNCHANGED <<farms, now, ret, sess, base, ing, call>>

NextQuery == UpsertQuery \/ Query \/ Respond

SpecQuery == Init /\ [][NextQuery]_vars

(* ---------------- batch ingest (FarmIngestService.ingest) ---------------- *)

MaxBatch == 2

Features ==
    {Feature(id, None, g, ts) :
        id \in {None, Some("G1"), Some("G2")},
        g \in {Some(Point(QueryLon, 0)), Some(Point(QueryLon, 55))},
        ts \in {None}}

Batches == UNION {[1..n -> Features] : n \in 1..MaxBatch}

(* a CSV document has the farm_id column in every row *)
Sources ==
    {[kind |-> k, features |-> b] :
        k \in {"geojson", "xml"}, b \in Batches}
    \cup {[kind |-> "csv", features |-> b] :
            b \in {c \in Batches : \A i \in 1..Len(c) : c[i].farm_id /= None}}

(* the instants the injected clock (self._clock) can give; the default    *)
(* clock gives the wall clock's now                                        *)
ClockReadings == 1..MaxNow

(* ingest lines 33-35 and the call of source.records(); ingestion_ts is    *)
(* the reading of the injected clock                                       *)
IngestBegin(src, clock) ==
    /\ ing.pc = "idle"
    /\ ing' = [pc |-> "running", kind |-> src.kind, source |-> src.features, pos |-> 1,
               count |-> 0, flags |-> <<>>, ingestion_ts |-> Some(DT(clock, "utc")),
               last |-> "none"]
    /\ base' = farms
    /\ UNCHANGED <<farms, now, ret, sess, within, call>>

(* mutant: the batch is one transaction, rolled back when a record fails *)
IngestRecord_rollback ==
    /\ ing.pc = "running"
    /\ ing.pos <= Len(ing.source)
    /\ \E rec \in {SourceRecord(ing.kind, ing.source[ing.pos])} :
          IF rec = None
          THEN /\ ing' = [ing EXCEPT !.pc = "error", !.last = "ValueError"]
               /\ farms' = base
               /\ UNCHANGED ret
          ELSE \E payload \in {IngestFields(Val(rec), now)} :
                  IF ~FarmBaseValidates(payload)
                  THEN /\ ing' = [ing EXCEPT !.pc = "error", !.last = "ValidationError"]
                       /\ farms' = base
                       /\ UNCHANGED ret
                  ELSE \E r \in {upsert_farm(farms, payload, ing.ingestion_ts,
                                              geom_diff_threshold_km, now)} :
                          /\ farms' = r.farms
                          /\ ret' = Returned(r, payload)
                          /\ ing' = [ing EXCEPT
                                       !.pos = @ + 1,
                                       !.count = @ + 1,
                                       !.flags = AppendFlag(@, payload, r.flagged, r.reason),
                                       !.last = "upserted"]
    /\ UNCHANGED <<now, sess, base, within, call>>

(* one turn of the loop of lines 37-58: the source yields its next record  *)
(* or raises, the candidate is validated and upserted                      *)
IngestRecord ==
    /\ ing.pc = "running"
    /\ ing.pos <= Len(ing.source)
    /\ \E rec \in {SourceRecord(ing.kind, ing.source[ing.pos])} :
          IF rec = None
          THEN /\ ing' = [ing EXCEPT !.pc = "error", !.last = "ValueError"]
               /\ UNCHANGED <<farms, ret>>
          ELSE \E payload \in {IngestFields(Val(rec), now)} :
                  IF ~FarmBaseValidates(payload)
                  THEN /\ ing' = [ing EXCEPT !.pc = "error", !.last = "ValidationError"]
                       /\ UNCHANGED <<farms, ret>>
                  ELSE \E r \in {upsert_farm(farms, payload, ing.ingestion_ts,
                                              geom_diff_threshold_km, now)} :
                          /\ farms' = r.farms
                          /\ ret' = Returned(r, payload)
                          /\ ing' = [ing EXCEPT
                                       !.pos = @ + 1,
                                       !.count = @ + 1,
                                       !.flags = AppendFlag(@, payload, r.flagged, r.reason),
                                       !.last = "upserted"]
    /\ UNCHANGED <<now, sess, base, within, call>>

(* line 60: the source is exhausted, {"ingested": count, "geometry_flags": flags} *)
IngestReturn ==
    /\ ing.pc = "running"
    /\ ing.pos > Len(ing.source)
    /\ ing' = [ing EXCEPT !.pc = "done"]
    /\ UNCHANGED <<farms, now, ret, sess, base, within, call>>

(* the caller has the result or the exception *)
IngestEnd ==
    /\ ing.pc \in {"done", "error"}
    /\ ing' = NoIngest
    /\ UNCHANGED <<farms, now, ret, sess, base, within, call>>

(* the service with its default clock, datetime.now(timezone.utc) *)
NextIngest ==
    \/ \E src \in Sources : IngestBegin(src, now)
    \/ IngestRecord
    \/ IngestReturn
    \/ IngestEnd

SpecIngest == Init /\ [][NextIngest]_vars

(* the service with an injected clock, on documents of one feature *)
ClockSources == {src \in Sources : Len(src.features) = 1}

NextClock ==
    \/ \E src \in ClockSources, clock \in ClockReadings : IngestBegin(src, clock)
    \/ IngestRecord
    \/ IngestReturn
    \/ IngestEnd

SpecClock == Init /\ [][NextClock]_vars

(* db.commit() of the upsert of the next record raises (crud.py lines 58   *)
(* and 209): nothing of that record is stored and the exception leaves     *)
(* ingest, which has no handler                                            *)
IngestCommitFails ==
    /\ ing.pc = "running"
    /\ ing.pos <= Len(ing.source)
    /\ SourceRecord(ing.kind, ing.source[ing.pos]) /= None
    /\ FarmBaseValidates(IngestFields(Val(SourceRecord(ing.kind, ing.source[ing.pos])), now))
    /\ ing' = [ing EXCEPT !.pc = "error", !.last = "PersistenceError"]
    /\ UNCHANGED <<farms, now, ret, sess, base, within, call>>

NextIngestFail == NextIngest \/ IngestCommitFails

SpecIngestFail == Init /\ [][NextIngestFail]_vars

(* ---------------- acreage: direct upserts and one-record ingests ---------------- *)

FarmBaseAcreage ==
    [farm_id : {"G1"}, farm_name : {None}, acreage : {None, Some(-5), Some(7)},
     latitude : {None}, longitude : {None}, geometry : {None}, source : {"csv", "geojson"},
     last_updated : {Some(DT(1, "utc")), Some(DT(2, "utc")), Some(DT(3, "utc"))}]

RawAcreages ==
    {None, Some(EmptyText), Some(WordText), Some(NumText(-5)), Some(NumText(0)),
     Some(Num(-5)), Some(Num(7))}

AcreageSources ==
    {[kind |-> k, features |-> <<Feature(Some("G1"), acr, None, ts)>>] :
        k \in {"csv", "geojson"}, acr \in RawAcreages,
        ts \in {Some(DT(2, "utc")), Some(DT(3, "utc"))}}

UpsertAcreage ==
    /\ ing.pc = "idle"
    /\ \E payload \in FarmBaseAcreage : UpsertFarm(payload, Some(DT(1, "utc")))

NextAcreage ==
    \/ UpsertAcreage
    \/ \E src \in AcreageSources : IngestBegin(src, now)
    \/ IngestRecord
    \/ IngestReturn
    \/ IngestEnd

SpecAcreage == Init /\ [][NextAcreage]_vars

(* ---------------- concurrent sessions ---------------- *)

(* upsert_farm lines 168-169 in session s: obj = db.get(models.Farm, farm_id) *)
Load(s, payload, ingestion_ts) ==
    /\ sess[s].pc = "idle"
    /\ sess' = [sess EXCEPT ![s] = [pc |-> "loaded", payload |-> Some(payload),
                                    its |-> ingestion_ts,
                                    obj |-> db_get(farms, payload.farm_id)]]
    /\ base' = IF \A t \in Sessions : sess[t].pc = "idle" THEN farms ELSE base
    /\ UNCHANGED <<farms, now, ret, within, ing, call>>

(* lines 171-173 in session s: the INSERT of a row not found at line 169 *)
CommitInsert(s) ==
    /\ sess[s].pc = "loaded"
    /\ sess[s].obj = None
    /\ \E payload \in {Val(sess[s].payload)} :
       \E obj \in {_insert_new_farm(payload, _aware(sess[s].its, now), now)} :
          IF PrimaryKeyFree(farms, payload.farm_id)
          THEN /\ farms' = db_add(farms, obj)
               /\ ret' = [path |-> "insert", farm_id |-> payload.farm_id,
                          flagged |-> FALSE, reason |-> None]
               /\ sess' = [sess EXCEPT ![s].pc = "done"]
          ELSE /\ sess' = [sess EXCEPT ![s].pc = "error"]
               /\ UNCHANGED <<farms, ret>>
    /\ UNCHANGED <<now, base, within, ing, call>>

(* lines 175-211 in session s: the merge into the row loaded at line 169 *)
CommitUpdate(s) ==
    /\ sess[s].pc = "loaded"
    /\ sess[s].obj /= None
    /\ \E payload \in {Val(sess[s].payload)} :
       \E m \in {MergeExisting(Val(sess[s].obj), payload, geom_diff_threshold_km, now)} :
          /\ farms' = db_flush_update(farms, Val(sess[s].obj), m[1])
          /\ ret' = [path |-> "update", farm_id |-> payload.farm_id,
                     flagged |-> m[2], reason |-> m[3]]
    /\ sess' = [sess EXCEPT ![s].pc = "done"]
    /\ UNCHANGED <<now, base, within, ing, call>>

Finished == \A s \in Sessions : sess[s].pc \in {"done", "error"}

(* both requests are over: get_db closes the sessions *)
Close ==
    /\ Finished
    /\ sess' = [s \in Sessions |-> Idle]
    /\ UNCHANGED <<farms, now, ret, base, within, ing, call>>

NextConc ==
    \/ \E s \in Sessions, payload \in FarmBaseConc : Load(s, payload, Some(DT(1, "utc")))
    \/ \E s \in Sessions : CommitInsert(s)
    \/ \E s \in Sessions : CommitUpdate(s)
    \/ Close

SpecConc == Init /\ [][NextConc]_vars

(* concurrent callers on distinct farms: session s upserts FarmOf(s) only *)
FarmOf(s) == IF s = 1 THEN "F1" ELSE "F2"

FarmBaseOf(s) ==
    {[p EXCEPT !.farm_id = FarmOf(s)] :
        p \in {q \in FarmBaseConc : q.last_updated /= Some(DT(3, "utc"))}}

NextDistinct ==
    \/ \E s \in Sessions : \E payload \in FarmBaseOf(s) : Load(s, payload, Some(DT(1, "utc")))
    \/ \E s \in Sessions : CommitInsert(s)
    \/ \E s \in Sessions : CommitUpdate(s)
    \/ Close

SpecDistinct == Init /\ [][NextDistinct]_vars

(* ---------------- calls of the functions of app/utils.py ---------------- *)

(* (lat, lon) pairs on the meridian of QueryLon, from pole to pole *)
HaversinePoints == {<<lat, QueryLon>> : lat \in {-90, -5, 0, 5, 50, 90}}

(* haversine_km applied to the pairs of a, b and c *)
Haversine(a, b, c) ==
    /\ call' = [fn |-> "haversine_km", args |-> <<a, b, c>>,
                out |-> [ab |-> haversine_km(a[1], a[2], b[1], b[2]),
                         ba |-> haversine_km(b[1], b[2], a[1], a[2]),
                         aa |-> haversine_km(a[1], a[2], a[1], a[2]),
                         bc |-> haversine_km(b[1], b[2], c[1], c[2]),
                         ac |-> haversine_km(a[1], a[2], c[1], c[2])]]
    /\ UNCHANGED <<farms, now, ret, sess, base, within, ing>>

NextHaversine ==
    \E a \in HaversinePoints, b \in HaversinePoints, c \in HaversinePoints :
       Haversine(a, b, c)

SpecHaversine == Init /\ [][NextHaversine]_vars

(* the call has returned to its caller *)
Return ==
    /\ call.fn /= "none"
    /\ call' = NoCall
    /\ UNCHANGED <<farms, now, ret, sess, base, within, ing>>

(* coordinate structures: numbers and other leaves, lists of leaves up to *)
(* MaxLen long, lists of those, and rings of vertices inside a list       *)
Leaves == {Num(2), Num(6), Other}

Flat == {Lst(s) : s \in UNION {[1..n -> Leaves] : n \in 0..MaxLen}}

Vertices == {Lst(s) : s \in UNION {[1..n -> {Num(2), Num(6)}] : n \in 2..MaxLen}}

Entries == Leaves \cup Flat

Nested ==
    {Lst(<<a>>) : a \in Flat} \cup {Lst(<<a, b>>) : a \in Entries, b \in Flat}

Deep ==
    {Lst(<<Lst(<<a, b>>), c>>) :
        a \in Vertices, b \in Vertices, c \in {Lst(<<Num(6), Num(2)>>), Other}}

Collections ==
    {GeometryCollection(m) :
        m \in UNION {[1..n -> {Point(33, 0), BadGeometry,
                               Geom("LineString", Lst(<<Lst(<<Num(2), Num(6)>>),
                                                        Lst(<<Num(6), Num(6)>>)>>))}] :
                        n \in 1..2}}

ReduceInputs ==
    {None}
    \cup {Some(Geom(t, c)) : t \in {"Point", "LineString"},
                             c \in Entries \cup Nested \cup Deep}
    \cup {Some(g) : g \in Collections}

(* one call of representative_point_from_geometry(geom) *)
Reduce(geom) ==
    /\ call' = [fn |-> "representative_point_from_geometry", args |-> <<geom>>,
                out |-> representative_point_from_geometry(geom)]
    /\ UNCHANGED <<farms, now, ret, sess, base, within, ing>>

(* calls are made one after the other *)
ReduceAny ==
    /\ call.fn = "none"
    /\ \E geom \in ReduceInputs : Reduce(geom)

NextReduce == ReduceAny \/ Return

SpecReduce == Init /\ [][NextReduce]_vars

(* ---------------- HTTP routes (app/main.py) ---------------- *)

Lit(s) == [k |-> "lit", s |-> s]
Param(s) == [k |-> "param", s |-> s]

(* the routes of the application in the order of their declaration *)
Routes ==
    <<[method |-> "GET", path |-> <<Lit("farms")>>, endpoint |-> "list_farms"],
      [method |-> "GET", path |-> <<Lit("farms"), Param("farm_id")>>, endpoint |-> "get_farm"],
      [method |-> "GET", path |-> <<Lit("farms"), Lit("within")>>, endpoint |-> "farms_within"],
      [method |-> "POST", path |-> <<Lit("ingest"), Lit("csv")>>, endpoint |-> "ingest_csv"],
      [method |-> "POST", path |-> <<Lit("ingest"), Lit("geojson")>>,
       endpoint |-> "ingest_geojson"]>>

(* the route's path matches the request path; a path parameter takes any  *)
(* one segment                                                             *)
Matches(route, method, path) ==
    /\ route.method = method
    /\ Len(route.path) = Len(path)
    /\ \A i \in 1..Len(path) : route.path[i].k = "param" \/ route.path[i].s = path[i]

(* the router takes the first route that matches, in declaration order *)
Dispatch(method, path) ==
    IF \E i \in 1..Len(Routes) : Matches(Routes[i], method, path)
    THEN Routes[CHOOSE i \in 1..Len(Routes) :
                  /\ Matches(Routes[i], method, path)
                  /\ \A j \in 1..(i - 1) : ~Matches(Routes[j], method, path)].endpoint
    ELSE "not_found"

(* main.py list_farms *)
list_farms == [status |-> 200, body |-> farms]

(* main.py get_farm *)
get_farm(farm_id) ==
    IF db_get(farms, farm_id) = None
    THEN [status |-> 404, body |-> "Farm not found"]
    ELSE [status |-> 200, body |-> Val(db_get(farms, farm_id))]

(* main.py farms_within *)
farms_within(lat, lon, radius) ==
    [status |-> 200, body |-> farms_within_radius(farms, lat, lon, radius)]

(* the response of the application to GET path?lat=..&lon=..&radius=.. *)
Handle(endpoint, path, query) ==
    CASE endpoint = "list_farms" -> list_farms
      [] endpoint = "get_farm" -> get_farm(path[2])
      [] endpoint = "farms_within" -> farms_within(query.lat, query.lon, query.radius)
      [] OTHER -> [status |-> 404, body |-> "Not Found"]

FarmBaseRoutes ==
    {[farm_id |-> id, farm_name |-> None, acreage |-> None,
      latitude |-> None, longitude |-> None, geometry |-> g,
      source |-> "csv", last_updated |-> Some(DT(1, "utc"))] :
        id \in {"A", "B", "within"},
        g \in {None, Some(Point(QueryLon, 0)), Some(Point(QueryLon, 50))}}

Paths == {<<"farms">>, <<"farms", "A">>, <<"farms", "within">>, <<"other">>}

Queries == {[lat |-> c[1], lon |-> c[2], radius |-> r] : c \in Centers, r \in Radii}

(* requests are served one after the other *)
UpsertRoutes ==
    /\ call.fn = "none"
    /\ \E payload \in FarmBaseRoutes : UpsertFarm(payload, Some(DT(1, "utc")))

(* one GET request *)
Get(path, query) ==
    /\ call' = [fn |-> Dispatch("GET", path), args |-> <<path, query>>,
                out |-> Handle(Dispatch("GET", path), path, query)]
    /\ UNCHANGED <<farms, now, ret, sess, base, within, ing>>

Request ==
    /\ call.fn = "none"
    /\ \E path \in Paths, query \in Queries : Get(path, query)

NextRoutes == UpsertRoutes \/ Request \/ Return

SpecRoutes == Init /\ [][NextRoutes]_vars

(* ---------------- claims ---------------- *)

(* the stored row of farm_id id *)
Row(tbl, id) == tbl[CHOOSE i \in 1..Len(tbl) : tbl[i].farm_id = id]

HasRow(tbl, id) == \E i \in 1..Len(tbl) : tbl[i].farm_id = id

(* the recency verdict of the specification: the candidate has no timestamp *)
(* or one that is not older than the stored last_updated                    *)
IncomingNewer(payload, existing) ==
    \/ payload.last_updated = None
    \/ Instant(Val(payload.last_updated)) >= Instant(existing.last_updated)

(* the rounded representative point of a geometry, (None, None) if it has none *)
ExpectedLatLon(geom) ==
    IF representative_point_from_geometry(geom) = None
    THEN <<None, None>>
    ELSE <<round4(Some(Val(representative_point_from_geometry(geom))[1])),
           round4(Some(Val(representative_point_from_geometry(geom))[2]))>>

(* the distance between the representative points of two geometries that have one *)
ShiftKm(old_geom, new_geom) ==
    haversine_km(Val(representative_point_from_geometry(old_geom))[1],
                 Val(representative_point_from_geometry(old_geom))[2],
                 Val(representative_point_from_geometry(new_geom))[1],
                 Val(representative_point_from_geometry(new_geom))[2])

(* C1: in every step of a serial run of upsert_farm calls, each stored row  *)
(* is still stored afterwards and its last_updated is not earlier than      *)
(* before the step.                                                         *)
C1_LastUpdatedMonotonic ==
    [][\A i \in 1..Len(farms) :
          \E j \in 1..Len(farms') :
             /\ farms'[j].farm_id = farms[i].farm_id
             /\ Instant(farms'[j].last_updated) >= Instant(farms[i].last_updated)]_vars

(* an update has run on a row whose last_updated is the later instant, so   *)
(* that older candidates have been (and can be) offered to it               *)
C1_Witness ==
    /\ ret.path = "update"
    /\ Len(farms) = 1
    /\ Instant(farms[1].last_updated) = 2
    /\ \E p \in FarmBase :
          /\ p.last_updated /= None
          /\ Instant(Val(p.last_updated)) < Instant(farms[1].last_updated)

(* C2: every stored row with a non-null geometry has (latitude, longitude)  *)
(* equal to the rounded representative point of that geometry ((None, None) *)
(* when the geometry has no representative point).                          *)
C2_GeometryCoordinateConsistency ==
    \A i \in 1..Len(farms) :
       farms[i].geometry /= None =>
          <<farms[i].latitude, farms[i].longitude>> = ExpectedLatLon(farms[i].geometry)

(* C3: rows are never removed and never change farm_id, no two rows share a *)
(* farm_id, and the farm_id of every call is stored after the call: one row *)
(* for each farm_id ever upserted.                                          *)
C3_OneRecordPerFarmId ==
    [][/\ Len(farms') >= Len(farms)
       /\ \A i \in 1..Len(farms) : farms'[i].farm_id = farms[i].farm_id
       /\ \A i, j \in 1..Len(farms') :
             farms'[i].farm_id = farms'[j].farm_id => i = j
       /\ ret'.path /= "none" => HasRow(farms', ret'.farm_id)]_vars

(* two farms are stored and the last call merged into one of them *)
C3_Witness ==
    /\ Len(farms) = 2
    /\ farms[1].farm_id /= farms[2].farm_id
    /\ ret.path = "update"

(* the table after upsert_farm(a) then upsert_farm(b), run one after the other *)
SerialOutcome(tbl, a, b) ==
    upsert_farm(upsert_farm(tbl, Val(a.payload), a.its, geom_diff_threshold_km, now).farms,
                Val(b.payload), b.its, geom_diff_threshold_km, now).farms

(* C4: when two concurrent upsert_farm calls are over, neither has failed   *)
(* and the table is what one of the two serial orders of the calls produces *)
(* from the table they started on.                                          *)
C4_SerializedReadModifyWrite ==
    Finished =>
       /\ \A s \in Sessions : sess[s].pc = "done"
       /\ farms \in {SerialOutcome(base, sess[1], sess[2]),
                     SerialOutcome(base, sess[2], sess[1])}

(* C5: in an update with a candidate that is not stale, when the stored and *)
(* the candidate geometry both have a representative point at distance d:   *)
(* d <= threshold gives flagged = false and the candidate geometry stored,  *)
(* d > threshold gives flagged = true and the stored geometry kept.         *)
C5_ThresholdInclusive ==
    \A p \in FarmBase, its \in IngestionTimes :
       (/\ HasRow(farms, p.farm_id)
        /\ IncomingNewer(p, Row(farms, p.farm_id))
        /\ representative_point_from_geometry(Row(farms, p.farm_id).geometry) /= None
        /\ representative_point_from_geometry(p.geometry) /= None)
       => \A r \in {upsert_farm(farms, p, its, geom_diff_threshold_km, now)} :
          \A d \in {ShiftKm(Row(farms, p.farm_id).geometry, p.geometry)} :
             /\ d <= geom_diff_threshold_km =>
                   ~r.flagged /\ Row(r.farms, p.farm_id).geometry = p.geometry
             /\ d > geom_diff_threshold_km =>
                   /\ r.flagged
                   /\ Row(r.farms, p.farm_id).geometry = Row(farms, p.farm_id).geometry

(* an update has run, and the stored row admits a candidate whose shift is  *)
(* exactly the threshold, which upsert_farm accepts                         *)
C5_Witness ==
    /\ ret.path = "update"
    /\ \E p \in FarmBase, q \in FarmBase, its \in IngestionTimes :
          /\ HasRow(farms, p.farm_id)
          /\ IncomingNewer(p, Row(farms, p.farm_id))
          /\ representative_point_from_geometry(Row(farms, p.farm_id).geometry) /= None
          /\ representative_point_from_geometry(p.geometry) /= None
          /\ ShiftKm(Row(farms, p.farm_id).geometry, p.geometry) = geom_diff_threshold_km
          /\ ~upsert_farm(farms, p, its, geom_diff_threshold_km, now).flagged
          /\ representative_point_from_geometry(q.geometry) /= None
          /\ q.last_updated = p.last_updated
          /\ upsert_farm(farms, q, its, geom_diff_threshold_km, now).flagged

(* C6: a step whose call returns flagged = true leaves geometry, latitude   *)
(* and longitude of the row of that farm_id as they were.                   *)
C6_FlaggedKeepsGeometryAndCoordinates ==
    [][ret'.flagged =>
          \A i \in 1..Len(farms) :
             farms[i].farm_id = ret'.farm_id =>
                /\ farms'[i].geometry = farms[i].geometry
                /\ farms'[i].latitude = farms[i].latitude
                /\ farms'[i].longitude = farms[i].longitude]_vars

(* a call has returned flagged = true on a stored row, and candidates with  *)
(* explicit coordinates other than the stored ones exist                    *)
C6_Witness ==
    /\ ret.flagged
    /\ ret.path = "update"
    /\ HasRow(farms, ret.farm_id)
    /\ \E p \in FarmBase :
          /\ p.latitude /= None
          /\ round4(p.latitude) /= Row(farms, ret.farm_id).latitude

(* C7: for every call on every reachable table, flagged is true exactly     *)
(* when the reason is a string that starts with "Geometry shift"; an insert *)
(* returns (false, None); and a candidate geometry that is not stale is     *)
(* either stored or reported by flagged = true.                             *)
C7_FlagHasReason ==
    /\ ret.flagged <=> (ret.reason /= None /\ Val(ret.reason)[1] = "Geometry shift")
    /\ \A p \in FarmBase, its \in IngestionTimes :
          \A r \in {upsert_farm(farms, p, its, geom_diff_threshold_km, now)} :
             /\ r.flagged <=> (r.reason /= None /\ Val(r.reason)[1] = "Geometry shift")
             /\ ~HasRow(farms, p.farm_id) => (~r.flagged /\ r.reason = None)
             /\ (/\ HasRow(farms, p.farm_id)
                 /\ p.geometry /= None
                 /\ IncomingNewer(p, Row(farms, p.farm_id))
                 /\ Row(r.farms, p.farm_id).geometry /= p.geometry)
                => r.flagged

(* a call has returned flagged = true with its reason *)
C7_Witness ==
    /\ ret.path = "update"
    /\ ret.flagged
    /\ ret.reason /= None
    /\ Val(ret.reason)[1] = "Geometry shift"
    /\ Val(ret.reason)[2] > geom_diff_threshold_km

C9_LastUpdatedIsIngestionTs ==
    ret.path /= "none" =>
       \E its \in IngestionTimes :
          Instant(Row(farms, ret.farm_id).last_updated) = Instant(Val(its))

(* C10: an update replaces farm_name exactly when the candidate's value is  *)
(* non-empty and the candidate is newer-or-equal (IncomingNewer), and       *)
(* acreage exactly when the candidate's value is present and IncomingNewer, *)
(* whatever the geometry outcome.                                           *)
C10_ScalarMerge ==
    \A p \in FarmBase, its \in IngestionTimes :
       HasRow(farms, p.farm_id) =>
          \A old \in {Row(farms, p.farm_id)} :
          \A new \in {Row(upsert_farm(farms, p, its, geom_diff_threshold_km, now).farms,
                          p.farm_id)} :
             /\ new.farm_name = IF Truthy(p.farm_name) /\ IncomingNewer(p, old)
                                THEN p.farm_name ELSE old.farm_name
             /\ new.acreage = IF p.acreage /= None /\ IncomingNewer(p, old)
                              THEN p.acreage ELSE old.acreage

(* the candidate carries a timestamp strictly older than the row's last_updated *)
Stale(payload, existing) ==
    /\ payload.last_updated /= None
    /\ Instant(Val(payload.last_updated)) < Instant(existing.last_updated)

(* C11: an update with a candidate whose timestamp is strictly older than   *)
(* the stored last_updated returns flagged = false and leaves every field   *)
(* of the row but source as it was, whatever the candidate carries.         *)
C11_StaleUpdateChangesOnlySource ==
    \A p \in FarmBase, its \in IngestionTimes :
       (HasRow(farms, p.farm_id) /\ Stale(p, Row(farms, p.farm_id))) =>
          \A old \in {Row(farms, p.farm_id)} :
          \A r \in {upsert_farm(farms, p, its, geom_diff_threshold_km, now)} :
             /\ r.path = "update"
             /\ ~r.flagged
             /\ [Row(r.farms, p.farm_id) EXCEPT !.source = old.source] = old

(* an update has run on a row that has a geometry, and a stale candidate    *)
(* with another name, explicit coordinates and a geometry further away than *)
(* the threshold is merged into it without effect                           *)
C11_Witness ==
    /\ ret.path = "update"
    /\ Len(farms) = 1
    /\ representative_point_from_geometry(farms[1].geometry) /= None
    /\ \E p \in FarmBase, its \in IngestionTimes :
          /\ Stale(p, farms[1])
          /\ Truthy(p.farm_name) /\ p.farm_name /= farms[1].farm_name
          /\ p.latitude /= None
          /\ representative_point_from_geometry(p.geometry) /= None
          /\ ShiftKm(farms[1].geometry, p.geometry) > geom_diff_threshold_km
          /\ upsert_farm(farms, p, its, geom_diff_threshold_km, now).farms = farms

(* C12: in every update the three sub-decisions follow one verdict, the     *)
(* IncomingNewer of the candidate against the stored row: a name or acreage *)
(* that differs from the stored one is taken exactly when IncomingNewer, a  *)
(* geometry that differs from the stored one is considered (stored, or      *)
(* reported by flagged = true) exactly when IncomingNewer, and on a row     *)
(* without geometry an explicit latitude that differs from the stored one   *)
(* is taken exactly when IncomingNewer.                                     *)
C12_SameRecencyVerdict ==
    \A p \in FarmBase, its \in IngestionTimes :
       HasRow(farms, p.farm_id) =>
          \A old \in {Row(farms, p.farm_id)} :
          \A r \in {upsert_farm(farms, p, its, geom_diff_threshold_km, now)} :
          \A new \in {Row(r.farms, p.farm_id)} :
             /\ (Truthy(p.farm_name) /\ p.farm_name /= old.farm_name) =>
                   ((new.farm_name = p.farm_name) <=> IncomingNewer(p, old))
             /\ (p.acreage /= None /\ p.acreage /= old.acreage) =>
                   ((new.acreage = p.acreage) <=> IncomingNewer(p, old))
             /\ (p.geometry /= None /\ p.geometry /= old.geometry) =>
                   ((r.flagged \/ new.geometry = p.geometry) <=> IncomingNewer(p, old))
             /\ (/\ old.geometry = None /\ p.geometry = None
                 /\ p.latitude /= None /\ round4(p.latitude) /= old.latitude) =>
                   ((new.latitude = round4(p.latitude)) <=> IncomingNewer(p, old))

(* C13: after an update that returns flagged = false, a row that has a      *)
(* geometry has (latitude, longitude) equal to the rounded representative   *)
(* point of that geometry, whatever explicit coordinates the candidate      *)
(* carries; a row without geometry takes the candidate's explicit           *)
(* coordinates (rounded) when the candidate is not stale, and keeps its own *)
(* when it is.                                                              *)
C13_GeometryAuthoritativeOnUpdate ==
    \A p \in FarmBase, its \in IngestionTimes :
       HasRow(farms, p.farm_id) =>
          \A old \in {Row(farms, p.farm_id)} :
          \A r \in {upsert_farm(farms, p, its, geom_diff_threshold_km, now)} :
          \A new \in {Row(r.farms, p.farm_id)} :
             ~r.flagged =>
                IF new.geometry /= None
                THEN <<new.latitude, new.longitude>> = ExpectedLatLon(new.geometry)
                ELSE IF IncomingNewer(p, old)
                THEN /\ new.latitude = IF p.latitude /= None
                                       THEN round4(p.latitude) ELSE old.latitude
                     /\ new.longitude = IF p.longitude /= None
                                        THEN round4(p.longitude) ELSE old.longitude
                ELSE new.latitude = old.latitude /\ new.longitude = old.longitude

(* C14: for every reachable table and every candidate that carries its own  *)
(* timestamp, a second upsert_farm with the same candidate (at the same or  *)
(* a later clock reading) leaves the table as the first call left it, and   *)
(* returns the flagged value of the first call when that was an update.     *)
C14_IdempotentResend ==
    \A p \in FarmBase, its \in IngestionTimes :
       p.last_updated /= None =>
          \A r1 \in {upsert_farm(farms, p, its, geom_diff_threshold_km, now)} :
          \A c2 \in now..MaxNow :
          \A r2 \in {upsert_farm(r1.farms, p, its, geom_diff_threshold_km, c2)} :
             /\ r2.path = "update"
             /\ r2.farms = r1.farms
             /\ r1.path = "update" => r2.flagged = r1.flagged

(* the last call was an update that returned flagged = true, and the table  *)
(* is what a candidate with its own timestamp, another name and a geometry  *)
(* beyond the threshold leaves behind; sending it again is flagged again    *)
C14_Witness ==
    /\ ret.path = "update"
    /\ ret.flagged
    /\ Len(farms) = 1
    /\ \E p \in FarmBase, its \in IngestionTimes :
          /\ p.last_updated /= None
          /\ Instant(Val(p.last_updated)) = Instant(farms[1].last_updated)
          /\ Truthy(p.farm_name) /\ p.farm_name = farms[1].farm_name
          /\ p.geometry /= None /\ p.geometry /= farms[1].geometry
          /\ upsert_farm(farms, p, its, geom_diff_threshold_km, now).flagged
          /\ upsert_farm(farms, p, its, geom_diff_threshold_km, now).farms = farms

(* the distance from the center of the last query to the point (lat, lon) *)
FromCenter(lat, lon) == haversine_km(within.lat, within.lon, lat, lon)

(* the row f is in the result of the last query *)
InResults(f) == \E k \in 1..Len(within.results) : within.results[k].farm = f

(* C15: a stored row without geometry but with latitude and longitude at a  *)
(* distance <= radius_km from the center is in the result of the query.     *)
C15_LatLonFallback ==
    within.pc = "returned" =>
       \A i \in 1..Len(farms) :
          (/\ farms[i].geometry = None
           /\ farms[i].latitude /= None /\ farms[i].longitude /= None
           /\ FromCenter(Val(farms[i].latitude), Val(farms[i].longitude))
                 <= within.radius_km)
          => InResults(farms[i])

(* the row f has a representative point at a distance <= radius_km from the *)
(* center of the last query                                                 *)
Qualifies(f) ==
    /\ representative_point_from_geometry(f.geometry) /= None
    /\ FromCenter(Val(representative_point_from_geometry(f.geometry))[1],
                  Val(representative_point_from_geometry(f.geometry))[2])
          <= within.radius_km

(* the result of the last query holds exactly the rows that qualify, each  *)
(* once and with its distance                                              *)
ExactlyWithinRadius ==
    /\ \A i \in 1..Len(farms) : Qualifies(farms[i]) <=> InResults(farms[i])
    /\ \A k \in 1..Len(within.results) :
          /\ \E i \in 1..Len(farms) : farms[i] = within.results[k].farm
          /\ Qualifies(within.results[k].farm)
          /\ within.results[k].d =
                FromCenter(Val(representative_point_from_geometry(
                                  within.results[k].farm.geometry))[1],
                           Val(representative_point_from_geometry(
                                  within.results[k].farm.geometry))[2])
    /\ \A k, l \in 1..Len(within.results) :
          within.results[k].farm.farm_id = within.results[l].farm.farm_id => k = l

IndexOf(f) == CHOOSE i \in 1..Len(farms) : farms[i].farm_id = f.farm_id

(* C17: the distances of the result are non-decreasing, and two rows at the *)
(* same distance come in the order they have in the table.                  *)
C17_SortedByDistanceStable ==
    within.pc = "returned" =>
       \A k, l \in 1..Len(within.results) :
          k < l =>
             /\ within.results[k].d <= within.results[l].d
             /\ within.results[k].d = within.results[l].d =>
                   IndexOf(within.results[k].farm) < IndexOf(within.results[l].farm)

(* three rows are returned: the nearest is the last of the table, the other *)
(* two are at the same distance and keep their table order                  *)
C17_Witness ==
    /\ within.pc = "returned"
    /\ Len(farms) = 3
    /\ Len(within.results) = 3
    /\ within.results[1].farm = farms[3]
    /\ within.results[1].d < within.results[2].d
    /\ within.results[2].d = within.results[3].d
    /\ within.results[2].farm = farms[1]
    /\ within.results[3].farm = farms[2]

(* the ingest call is over: it has returned its result or raised *)
IngestOver == ing.pc \in {"done", "error"}

(* C18: when an ingest of a GeoJSON document is over, every feature that    *)
(* has a farm_id and comes after a feature without farm_id has been         *)
(* upserted: its farm is stored.                                            *)
C18_MissingIdRejectsOnlyThatRecord ==
    (IngestOver /\ ing.kind = "geojson") =>
       \A i, j \in 1..Len(ing.source) :
          (i < j /\ ing.source[i].farm_id = None /\ ing.source[j].farm_id /= None)
          => HasRow(farms, Val(ing.source[j].farm_id))

(* every record of the source is valid: it has a farm_id and a source tag   *)
(* that FarmBase accepts                                                    *)
ValidSource ==
    /\ ing.kind \in {"csv", "geojson"}
    /\ \A i \in 1..Len(ing.source) : ing.source[i].farm_id /= None

(* the geometry_flags entries of the features feats, upserted in order from *)
(* the table tbl                                                            *)
RECURSIVE FlagsOf(_, _)
FlagsOf(tbl, feats) ==
    IF feats = <<>> THEN <<>>
    ELSE Let(IngestFields(Val(SourceRecord(ing.kind, Head(feats))), now), LAMBDA payload :
         Let(upsert_farm(tbl, payload, ing.ingestion_ts, geom_diff_threshold_km, now),
             LAMBDA r :
                (IF r.flagged
                 THEN <<[farm_id |-> payload.farm_id, reason |-> r.reason]>>
                 ELSE <<>>) \o FlagsOf(r.farms, Tail(feats))))

(* C19: an ingest of a source of n valid records returns, with ingested = n *)
(* and with geometry_flags holding, in source order, one entry for each     *)
(* record whose upsert returned flagged = true and none for the others.     *)
C19_IngestCountsAndFlags ==
    (IngestOver /\ ValidSource) =>
       /\ ing.pc = "done"
       /\ ing.count = Len(ing.source)
       /\ ing.flags = FlagsOf(base, ing.source)

(* an ingest of two valid records has returned: the first was not flagged,  *)
(* the second was                                                           *)
C19_Witness ==
    /\ ing.pc = "done"
    /\ ValidSource
    /\ Len(ing.source) = 2
    /\ ing.count = 2
    /\ Len(ing.flags) = 1
    /\ ing.source[1].farm_id /= ing.source[2].farm_id
    /\ ing.flags[1].farm_id = Val(ing.source[2].farm_id)
    /\ Val(ing.flags[1].reason)[1] = "Geometry shift"

(* C20: an ingest of an XML document of one well-formed Feature (farm_id    *)
(* and a Point geometry) of a farm not yet stored returns ingested = 1 with *)
(* no geometry flags, and the farm is stored with the rounded coordinates   *)
(* of the Point.                                                            *)
C20_XmlIngestSucceeds ==
    (/\ IngestOver
     /\ ing.kind = "xml"
     /\ Len(ing.source) = 1
     /\ ing.source[1].farm_id /= None
     /\ ~HasRow(base, Val(ing.source[1].farm_id)))
    => /\ ing.pc = "done"
       /\ ing.count = 1
       /\ ing.flags = <<>>
       /\ HasRow(farms, Val(ing.source[1].farm_id))
       /\ <<Row(farms, Val(ing.source[1].farm_id)).latitude,
             Row(farms, Val(ing.source[1].farm_id)).longitude>>
             = ExpectedLatLon(ing.source[1].geometry)

(* C21: a record of a batch that has no last_updated of its own gets the    *)
(* reading of the injected clock (the ingestion_ts of the batch), so when   *)
(* it is inserted the row's last_updated is ingestion_ts; a record with its *)
(* own timestamp is inserted with that timestamp.                           *)
C21_IngestionClockForMissingTimestamp ==
    (ing.pc = "running" /\ ing.last = "upserted" /\ ret.path = "insert") =>
       Instant(Row(farms, ret.farm_id).last_updated) =
          IF ing.source[ing.pos - 1].last_updated = None
          THEN Instant(Val(ing.ingestion_ts))
          ELSE Instant(Val(ing.source[ing.pos - 1].last_updated))

(* the rows of a table, whatever their order *)
RowSet(tbl) == {tbl[i] : i \in 1..Len(tbl)}

(* the row of the farm of session s after its call, run alone on the table *)
(* tbl                                                                     *)
AloneOutcome(tbl, s) ==
    Row(upsert_farm(tbl, Val(sess[s].payload), sess[s].its,
                    geom_diff_threshold_km, now).farms,
        Val(sess[s].payload).farm_id)

(* C22: when two interleaved upsert_farm calls on distinct farm_ids are     *)
(* over, none has failed, the row of each farm is what its own call alone   *)
(* makes of the table they started on (the other call has not touched it),  *)
(* and the rows are those that running the two calls one after the other    *)
(* gives, in either order.                                                  *)
C22_DistinctFarmsIndependent ==
    (Finished /\ Val(sess[1].payload).farm_id /= Val(sess[2].payload).farm_id) =>
       /\ \A s \in Sessions : sess[s].pc = "done"
       /\ \A s \in Sessions :
             Row(farms, Val(sess[s].payload).farm_id) = AloneOutcome(base, s)
       /\ RowSet(farms) = RowSet(SerialOutcome(base, sess[1], sess[2]))
       /\ RowSet(farms) = RowSet(SerialOutcome(base, sess[2], sess[1]))

(* two calls on distinct farms are over: each has merged into its own row, *)
(* and both rows have changed                                              *)
C22_Witness ==
    /\ Finished
    /\ \A s \in Sessions : sess[s].pc = "done" /\ sess[s].obj /= None
    /\ Len(farms) = 2
    /\ Len(base) = 2
    /\ Row(farms, "F1") /= Row(base, "F1")
    /\ Row(farms, "F2") /= Row(base, "F2")

(* C23: the acreage of every stored record is absent or non-negative *)
C23_AcreageNonNegative ==
    \A i \in 1..Len(farms) : farms[i].acreage = None \/ Val(farms[i].acreage) >= 0

C26_InsertCoordinates ==
    \A p \in FarmBase, its \in IngestionTimes :
       ~HasRow(farms, p.farm_id) =>
          \A r \in {upsert_farm(farms, p, its, geom_diff_threshold_km, now)} :
          \A new \in {Row(r.farms, p.farm_id)} :
             /\ r.path = "insert"
             /\ <<new.latitude, new.longitude>> =
                   IF p.geometry /= None THEN ExpectedLatLon(p.geometry)
                   ELSE IF p.latitude /= None /\ p.longitude /= None
                   THEN <<round4(p.latitude), round4(p.longitude)>>
                   ELSE <<None, None>>

(* every entry of a nested structure, at any depth, the structure first *)
RECURSIVE AllEntries(_)
AllEntries(c) ==
    IF ~IsList(c) THEN <<c>>
    ELSE LET RECURSIVE below(_)
             below(i) == IF i > Len(c.l) THEN <<>>
                         ELSE AllEntries(c.l[i]) \o below(i + 1)
         IN <<c>> \o below(1)

(* a 2-element numeric [lon, lat] pair *)
IsValidPair(e) == IsList(e) /\ Len(e.l) = 2 /\ IsNum(e.l[1]) /\ IsNum(e.l[2])

ValidPairs(c) == SelectSeq(AllEntries(c), IsValidPair)

RECURSIVE SumOf(_, _)
SumOf(pairs, j) == IF pairs = <<>> THEN 0 ELSE Head(pairs).l[j].n + SumOf(Tail(pairs), j)

(* (mean latitude, mean longitude) of the pairs *)
MeanLatLon(pairs) == <<SumOf(pairs, 2) \div Len(pairs), SumOf(pairs, 1) \div Len(pairs)>>

(* the last call is representative_point_from_geometry on a geometry that *)
(* carries coordinates                                                     *)
Reduced ==
    /\ call.fn = "representative_point_from_geometry"
    /\ call.args[1] /= None
    /\ Val(call.args[1]).type /= "GeometryCollection"

(* a Point whose coordinates begin with two numbers and go on *)
LongPoint(g) ==
    /\ g.type = "Point"
    /\ IsList(g.coordinates)
    /\ Len(g.coordinates.l) > 2
    /\ IsNum(g.coordinates.l[1]) /\ IsNum(g.coordinates.l[2])

(* C27 as stated: a non-Point geometry gives the mean over exactly the    *)
(* 2-element numeric pairs of its coordinates, at any depth; a Point with *)
(* two numeric coordinates gives (lat, lon) itself; the result is absent  *)
(* exactly when the coordinates hold no valid pair.                       *)
C27_AsStated ==
    Reduced =>
       \A g \in {Val(call.args[1])} :
       \A pairs \in {ValidPairs(g.coordinates)} :
          /\ (g.type /= "Point" /\ pairs /= <<>>) => call.out = Some(MeanLatLon(pairs))
          /\ (g.type = "Point" /\ IsValidPair(g.coordinates)) =>
                call.out = Some(<<g.coordinates.l[2].n, g.coordinates.l[1].n>>)
          /\ (call.out = None) <=> (pairs = <<>>)

(* C27, amended: as stated, but a Point whose coordinate list begins with *)
(* two numbers and has further entries gives (lat, lon) from those two,   *)
(* and the result is absent exactly when the coordinates hold no valid    *)
(* pair and the geometry is no such Point.                                *)
C27_ReducerMeanOfValidPairs ==
    Reduced =>
       \A g \in {Val(call.args[1])} :
       \A pairs \in {ValidPairs(g.coordinates)} :
          /\ (g.type /= "Point" /\ pairs /= <<>>) => call.out = Some(MeanLatLon(pairs))
          /\ (g.type = "Point" /\ IsValidPair(g.coordinates)) =>
                call.out = Some(<<g.coordinates.l[2].n, g.coordinates.l[1].n>>)
          /\ LongPoint(g) =>
                call.out = Some(<<g.coordinates.l[2].n, g.coordinates.l[1].n>>)
          /\ (call.out = None) <=> (pairs = <<>> /\ ~LongPoint(g))

(* a LineString with pairs at two depths, a 3-element list of numbers and *)
(* other entries in between has been reduced to the mean of its pairs     *)
C27_Witness ==
    /\ Reduced
    /\ Val(call.args[1]).type = "LineString"
    /\ \E e \in 1..Len(AllEntries(Val(call.args[1]).coordinates)) :
          LET x == AllEntries(Val(call.args[1]).coordinates)[e]
          IN IsList(x) /\ Len(x.l) = 3 /\ \A i \in 1..3 : IsNum(x.l[i])
    /\ Len(ValidPairs(Val(call.args[1]).coordinates)) = 2
    /\ ValidPairs(Val(call.args[1]).coordinates)[1] /= ValidPairs(Val(call.args[1]).coordinates)[2]
    /\ call.out = Some(MeanLatLon(ValidPairs(Val(call.args[1]).coordinates)))

(* C28: a GeometryCollection with a member geometry that holds a valid   *)
(* coordinate pair is reduced to a (lat, lon), not to absent.            *)
C28_GeometryCollectionReduced ==
    (/\ call.fn = "representative_point_from_geometry"
     /\ call.args[1] /= None
     /\ Val(call.args[1]).type = "GeometryCollection"
     /\ \E i \in 1..Len(Val(call.args[1]).geometries) :
           ValidPairs(Val(call.args[1]).geometries[i].coordinates) /= <<>>) =>
       call.out /= None

(* the table after the features feats have been ingested in order into tbl *)
RECURSIVE StoreAfter(_, _)
StoreAfter(tbl, feats) ==
    IF feats = <<>> THEN tbl
    ELSE StoreAfter(upsert_farm(tbl, IngestFields(Val(SourceRecord(ing.kind, Head(feats))), now),
                                ing.ingestion_ts, geom_diff_threshold_km, now).farms,
                    Tail(feats))

(* the ingest has stopped at record ing.pos: the table holds what the      *)
(* records before it made of the table the ingest started with, and they   *)
(* are the records counted                                                 *)
StoppedAtRecord ==
    /\ ing.pos <= Len(ing.source)
    /\ ing.count = ing.pos - 1
    /\ farms = StoreAfter(base, SubSeq(ing.source, 1, ing.pos - 1))

(* C29: when a record of a batch fails (no farm_id, a validation error, a  *)
(* failed commit), the ingest is over with that exception, at that record, *)
(* tried once: the records before it are stored and counted, and nothing   *)
(* of that record or of a later one is.                                    *)
C29_FailureKeepsEarlierRecords ==
    ing.pc = "error" =>
       /\ ing.last \in {"ValueError", "ValidationError", "PersistenceError"}
       /\ StoppedAtRecord

(* the second record of a batch has failed after the first changed a row  *)
(* that was stored before the batch                                        *)
C29_Witness ==
    /\ ing.pc = "error"
    /\ ing.pos = 2
    /\ Len(ing.source) = 2
    /\ Len(base) >= 1
    /\ farms /= base
    /\ ing.last = "PersistenceError"
    /\ StoppedAtRecord

(* C30: a GET of /farms/within with lat, lon and radius is handled by the *)
(* radius query: the response is 200 with the farms within the radius and *)
(* their distances; it is not handled by get_farm with farm_id "within".  *)
C30_WithinRouteReachesRadiusQuery ==
    (call.fn /= "none" /\ call.args[1] = <<"farms", "within">>) =>
       /\ call.fn = "farms_within"
       /\ call.out.status = 200
       /\ call.out.body = farms_within_radius(farms, call.args[2].lat, call.args[2].lon,
                                              call.args[2].radius)

====
